---- MODULE Spec2Model ----
\* A model of synchrotron's listener (src/src/listener.rs) and of its key
\* distributor (src/src/backend/distributor/).  Two specifications share this
\* module: Spec / FairSpec for the listener with its client tasks, and SpecDist
\* for the distributor.
EXTENDS Integers, Sequences, FiniteSets, TLC

VARIABLES
    \* ---- listener and client tasks (listener.rs) ----
    closeFired,     \* the shared close signal has been sent
    listener,       \* the listener future: "accepting", "closed" or "failed"
    deadline,       \* the evacuator's 3000 ms drain timer has elapsed
    evacuated,      \* the shared Evacuate future (`closer`) has resolved
    count,          \* the warden's in-flight count
    connected,      \* the ClientsConnected metric
    task,           \* per client: "none", "pending", "running", "done", "failed", "cancelled"
    sent,           \* per client: requests the client has written so far
    eof,            \* per client: the client has closed its sending side
    nread,          \* per client: requests the read stream has yielded
    batches,        \* per client: batches whose fold step is unresolved
    mq,             \* per client: the MessageQueue's slots, in insertion order
    out,            \* per client: replies written to the client's socket
    done,           \* per client: the last batch the fold has completed, [lo, hi]
    logs,           \* per client: error lines logged for the task
    quota,          \* per client: how many requests the client will send at most
    \* ---- distributor (modulo.rs, mod.rs) ----
    usizeBits,      \* width of usize on the build target: 32 or 64
    distKind,       \* which distributor configure_distributor built
    backends,       \* ModuloDistributor.backends: Vec<BackendDescriptor>
    backend_count,  \* ModuloDistributor.backend_count
    lastSeed,       \* the list handed to the most recent seed/update call
    distRes,        \* outcome of the most recent choose call
    anchor,         \* the first successful choose call since the last seed
    interleaved,    \* a choose of another point has followed the anchor call
    \* ---- listener construction (listener.rs from_config .. get_fixed_router) ----
    protocol,       \* ListenerConfiguration.protocol
    route_type,     \* ListenerConfiguration.routing["type"], or "absent"
    pools,          \* the names of the configured pools
    bindOk,         \* get_listener can bind the configured address
    poolsOk,        \* BackendPool::new succeeds for the configured pools
    result,         \* what from_config returned: NotBuilt until it has run
    \* ---- signal thread (main.rs) ----
    sigQueue,       \* signals delivered to the process, not yet received
    sigSeen,        \* signals the thread has received, in order
    sigThread,      \* the signal thread: "recv" (in its loop) or "exited"
    closeSends,     \* how many times close_tx.send(()) has run
    \* ---- backend pool (spec sections 4.4, 4.5) ----
    bstate,         \* per backend: "Healthy", "Degraded", "CoolingOff", "Probing"
    fails,          \* per backend: its consecutive-failure counter
    plog,           \* the pool's requests in arrival order: target and outcome
    recovered,      \* per backend: it has left a cool-off through a successful probe
    \* ---- shadow pool of the Shadow router (spec section 4.6) ----
    shadow          \* per client and request: the shadow pool's answer to the duplicate

lvars == <<closeFired, listener, deadline, evacuated, count, connected, task,
           sent, eof, nread, batches, mq, out, done, logs, quota>>

dvars == <<usizeBits, distKind, backends, backend_count, lastSeed, distRes, anchor, interleaved>>

cvars == <<protocol, route_type, pools, bindOk, poolsOk, result>>

svars == <<sigQueue, sigSeen, sigThread, closeSends>>

pvars == <<bstate, fails, plog, recovered>>

hvars == <<shadow>>

vars == <<lvars, dvars, cvars, svars, pvars, hvars>>

\* Everything but the listener's variables, and everything but the distributor's.
notListener == <<dvars, cvars, svars, pvars, hvars>>
notDistributor == <<lvars, cvars, svars, pvars, hvars>>
notPool == <<lvars, dvars, cvars, svars, hvars>>

\* ------------------------------------------------------------------------
\* Distributor
\* ------------------------------------------------------------------------

\* Bound of the distributor model: the longest list handed to seed.
MaxBackends == 3

\* The idx values the seeded descriptors carry: list positions and one value
\* beyond every list.
IdxValues == { 0, 1, 9 }

\* A u64 is kept as four 16-bit limbs, most significant first, so that every
\* intermediate value of the arithmetic stays below 2^31.
LimbBase == 2^16

Points ==
    { <<0, 0, 0, 0>>, <<0, 0, 0, 5>>,
      <<0, 1, 0, 0>>,                       \* 2^32
      <<65535, 65535, 65535, 65535>> }      \* 2^64 - 1

\* A BackendDescriptor as modulo.rs uses it: a record carrying `idx`.
Descriptors == [idx : IdxValues]

RECURSIVE SeqsUpTo(_, _)
SeqsUpTo(S, n) ==
    IF n = 0 THEN { <<>> }
    ELSE LET shorter == SeqsUpTo(S, n - 1)
         IN  shorter \cup { Append(s, x) : s \in { t \in shorter : Len(t) = n - 1 }, x \in S }

SeedLists == SeqsUpTo(Descriptors, MaxBackends)

\* limbs mod n, by Horner's rule.
RECURSIVE LimbsMod(_, _, _)
LimbsMod(limbs, n, acc) ==
    IF limbs = <<>> THEN acc
    ELSE LimbsMod(Tail(limbs), n, (acc * LimbBase + Head(limbs)) % n)

\* The mathematical p mod n over the full 64-bit value of p.
U64Mod(p, n) == LimbsMod(p, n, 0)

\* `point as usize`: the identity where usize has 64 bits, the low 32 bits
\* where it has 32.
AsUsize(p) == IF usizeBits = 64 THEN p ELSE <<0, 0, p[3], p[4]>>

NoCall == [kind |-> "none"]

\* Faulty variant: choose offsets the slot by the result of the previous call.
ModuloChooseSticky(point) ==
    IF backend_count = 0
    THEN [kind |-> "panic", point |-> point]
    ELSE LET prev == IF distRes.kind = "ok" THEN distRes.ret ELSE 0
             idx == (LimbsMod(AsUsize(point), backend_count, 0) + prev) % backend_count
         IN  [kind |-> "ok", point |-> point, ret |-> backends[idx + 1].idx]

\* ModuloDistributor::choose: `point as usize % self.backend_count` panics on
\* a zero divisor; otherwise the descriptor's idx field is returned.
ModuloChoose(point) ==
    IF backend_count = 0
    THEN [kind |-> "panic", point |-> point]
    ELSE LET idx == LimbsMod(AsUsize(point), backend_count, 0)
         IN  [kind |-> "ok", point |-> point, ret |-> backends[idx + 1].idx]

\* RandomDistributor::choose: ignores the point and returns the zero-indexed
\* position of any one of the current descriptors.
RandomChoose(point) ==
    IF backend_count = 0
    THEN { [kind |-> "panic", point |-> point] }
    ELSE { [kind |-> "ok", point |-> point, ret |-> i - 1] : i \in 1..backend_count }

\* configure_distributor: "random" or "modulo" (anything else panics at start).
DistKinds == { "modulo", "random" }

DistInitD ==
    /\ usizeBits \in { 32, 64 }
    /\ distKind \in DistKinds
    /\ backends = <<>>
    /\ backend_count = 0
    /\ lastSeed = <<>>
    /\ distRes = NoCall
    /\ anchor = NoCall
    /\ interleaved = FALSE

\* Faulty variant: the new list is stored, the count is left as it was.
updateStaleCount(list) ==
    /\ backends' = list
    /\ lastSeed' = list
    /\ distRes' = NoCall
    /\ anchor' = NoCall
    /\ interleaved' = FALSE
    /\ UNCHANGED <<usizeBits, distKind, backend_count>>

\* Distributor::seed, implemented by ModuloDistributor::update.
update(list) ==
    /\ backends' = list
    /\ backend_count' = Len(list)
    /\ lastSeed' = list
    /\ distRes' = NoCall
    /\ anchor' = NoCall
    /\ interleaved' = FALSE
    /\ UNCHANGED <<usizeBits, distKind>>

\* Distributor::choose on the configured distributor.
choose(point) ==
    /\ \E r \in (IF distKind = "modulo" THEN { ModuloChoose(point) } ELSE RandomChoose(point)) :
          /\ distRes' = r
          /\ anchor' = IF r.kind = "ok" /\ anchor.kind = "none" THEN r ELSE anchor
          /\ interleaved' = (interleaved \/ (anchor.kind = "ok" /\ anchor.point # point))
    /\ UNCHANGED <<usizeBits, distKind, backends, backend_count, lastSeed>>


\* ------------------------------------------------------------------------
\* Listener, client tasks, MessageQueue, warden
\* ------------------------------------------------------------------------

Clients == { "c1", "c2" }

\* proto_rx.batch(128): the cap on a batch.  The model scales the cap down so
\* that a client can have more requests waiting than one batch takes.
BatchCap == 2

\* The most requests a client pipelines: one more than a batch holds.
MaxReqs == BatchCap + 1

\* The workloads: c1 pipelines over several batches beside a second connection
\* that sends nothing, or both clients send one request.
Workloads ==
    { [c \in Clients |-> IF c = "c1" THEN MaxReqs ELSE 0],
      [c \in Clients |-> 1] }

Min(a, b) == IF a < b THEN a ELSE b

\* No batch completed yet.
NoBatch == [lo |-> 1, hi |-> 0]

\* --- MessageQueue: ordered slots, each Pending until fulfilled ---

\* enqueue: one Pending slot per request of the batch, in batch order.
RECURSIVE ReserveSlots(_, _, _)
ReserveSlots(q, lo, hi) ==
    IF lo > hi THEN q
    ELSE ReserveSlots(Append(q, [req |-> lo, state |-> "pending"]), lo + 1, hi)

\* Fulfil the slot reserved for request i with a reply of the given kind.
FillSlot(q, i, kind) ==
    [k \in 1..Len(q) |-> IF q[k].req = i THEN [req |-> i, state |-> kind] ELSE q[k]]

\* Length of the contiguous prefix of fulfilled slots.
RECURSIVE ReadyPrefixLen(_)
ReadyPrefixLen(q) ==
    IF q = <<>> \/ Head(q).state = "pending" THEN 0
    ELSE 1 + ReadyPrefixLen(Tail(q))

SlotPending(q, i) == \E k \in 1..Len(q) : q[k].req = i /\ q[k].state = "pending"

\* The requests that have an output slot: still queued, or already written.
Slotted(c) ==
    { mq[c][k].req : k \in 1..Len(mq[c]) } \cup { out[c][k].req : k \in 1..Len(out[c]) }

\* --- the fold over the batched read stream ---

\* Faulty variant: the fold's steps run concurrently, none waits for another.
FoldIdleAlways(c) == TRUE

\* fold polls the stream again only when its current step future is resolved.
FoldIdle(c) == batches[c] = {}

InStage(c, stage) == { b \in batches[c] : b.stage = stage }

\* No signal, no client, nothing read or written yet.
TasksStart ==
    /\ closeFired = FALSE
    /\ deadline = FALSE
    /\ evacuated = FALSE
    /\ count = 0
    /\ connected = 0
    /\ task = [c \in Clients |-> "none"]
    /\ sent = [c \in Clients |-> 0]
    /\ eof = [c \in Clients |-> FALSE]
    /\ nread = [c \in Clients |-> 0]
    /\ batches = [c \in Clients |-> {}]
    /\ mq = [c \in Clients |-> <<>>]
    /\ out = [c \in Clients |-> <<>>]
    /\ done = [c \in Clients |-> NoBatch]
    /\ logs = [c \in Clients |-> {}]

\* The listener has been built and its accept loop polls the socket.
ListenerStart == listener = "accepting" /\ TasksStart

ListenerInit == ListenerStart /\ quota \in Workloads

\* The workloads of the shutdown runs: a pipelining client beside a silent
\* one, or one request from each.
ShutdownWorkloads ==
    { [c \in Clients |-> IF c = "c1" THEN 2 ELSE 0],
      [c \in Clients |-> 1] }

\* The listener is at rest while the distributor is exercised.
ListenerIdle == ListenerStart /\ quota = [c \in Clients |-> 0]

\* The signal thread sends the close signal (INT).
CloseSignal ==
    /\ ~closeFired
    /\ closeFired' = TRUE
    /\ UNCHANGED <<listener, deadline, evacuated, count, connected, task, sent,
                   eof, nread, batches, mq, out, done, logs, quota>>

\* A client connects: the connection waits in the listen backlog.
ClientConnect(c) ==
    /\ listener = "accepting"
    /\ task[c] = "none"
    /\ task' = [task EXCEPT ![c] = "pending"]
    /\ UNCHANGED <<closeFired, listener, deadline, evacuated, count, connected,
                   sent, eof, nread, batches, mq, out, done, logs, quota>>

\* Faulty variant: the accept loop outlives the listener's future.
AcceptAnyTime(c) ==
    /\ task[c] = "pending"
    /\ count' = count + 1
    /\ connected' = connected + 1
    /\ task' = [task EXCEPT ![c] = "running"]
    /\ UNCHANGED <<closeFired, listener, deadline, evacuated, sent, eof, nread,
                   batches, mq, out, done, logs, quota>>

\* incoming().for_each closure: warden.increment(), ClientsConnected + 1, the
\* MessageQueue and the client task are spawned.
Accept(c) ==
    /\ listener = "accepting"
    /\ task[c] = "pending"
    /\ count' = count + 1
    /\ connected' = connected + 1
    /\ task' = [task EXCEPT ![c] = "running"]
    /\ UNCHANGED <<closeFired, listener, deadline, evacuated, sent, eof, nread,
                   batches, mq, out, done, logs, quota>>

\* The listener's select2 sees the close signal on the poll after it fired:
\* the accept loop is dropped.
ListenerShutdown ==
    /\ listener = "accepting"
    /\ closeFired
    /\ listener' = "closed"
    /\ UNCHANGED <<closeFired, deadline, evacuated, count, connected, task, sent,
                   eof, nread, batches, mq, out, done, logs, quota>>

\* incoming() yields an error: it is logged and the accept loop ends.
AcceptError ==
    /\ listener = "accepting"
    /\ listener' = "failed"
    /\ UNCHANGED <<closeFired, deadline, evacuated, count, connected, task, sent,
                   eof, nread, batches, mq, out, done, logs, quota>>

\* The client writes one more request.
ClientSend(c) ==
    /\ task[c] = "running"
    /\ ~eof[c]
    /\ sent[c] < quota[c]
    /\ sent' = [sent EXCEPT ![c] = @ + 1]
    /\ UNCHANGED <<closeFired, listener, deadline, evacuated, count, connected,
                   task, eof, nread, batches, mq, out, done, logs, quota>>

\* The client closes its sending side.
ClientClose(c) ==
    /\ task[c] = "running"
    /\ ~eof[c]
    /\ eof' = [eof EXCEPT ![c] = TRUE]
    /\ UNCHANGED <<closeFired, listener, deadline, evacuated, count, connected,
                   task, sent, nread, batches, mq, out, done, logs, quota>>

\* Faulty variant: the stream is polled for the next batch while the step of
\* the current one is unresolved.
ReadBatchWhileRouting(c) ==
    /\ task[c] = "running"
    /\ nread[c] < sent[c]
    /\ LET n == Min(sent[c] - nread[c], BatchCap)
       IN  /\ batches' = [batches EXCEPT ![c] =
                  @ \cup { [lo |-> nread[c] + 1, hi |-> nread[c] + n, stage |-> "enqueue"] }]
           /\ nread' = [nread EXCEPT ![c] = @ + n]
    /\ UNCHANGED <<closeFired, listener, deadline, evacuated, count, connected,
                   task, sent, eof, mq, out, done, logs, quota>>

\* Faulty variant: the batch takes everything that is available, without a cap.
ReadBatchUncapped(c) ==
    /\ task[c] = "running"
    /\ FoldIdle(c)
    /\ nread[c] < sent[c]
    /\ batches' = [batches EXCEPT ![c] =
           @ \cup { [lo |-> nread[c] + 1, hi |-> sent[c], stage |-> "enqueue"] }]
    /\ nread' = [nread EXCEPT ![c] = sent[c]]
    /\ UNCHANGED <<closeFired, listener, deadline, evacuated, count, connected,
                   task, sent, eof, mq, out, done, logs, quota>>

\* proto_rx.batch(128) yields the requests that are available, up to the cap,
\* and the fold starts its step for them.
ReadBatch(c) ==
    /\ task[c] = "running"
    /\ FoldIdle(c)
    /\ nread[c] < sent[c]
    /\ LET n == Min(sent[c] - nread[c], BatchCap)
       IN  /\ batches' = [batches EXCEPT ![c] =
                  @ \cup { [lo |-> nread[c] + 1, hi |-> nread[c] + n, stage |-> "enqueue"] }]
           /\ nread' = [nread EXCEPT ![c] = @ + n]
    /\ UNCHANGED <<closeFired, listener, deadline, evacuated, count, connected,
                   task, sent, eof, mq, out, done, logs, quota>>

\* Faulty variant: router.route is called without waiting for the slots.
EnqueueSkipSlots(c) ==
    /\ task[c] = "running"
    /\ \E b \in InStage(c, "enqueue") :
          batches' = [batches EXCEPT ![c] =
              (@ \ { b }) \cup { [b EXCEPT !.stage = "route"] }]
    /\ UNCHANGED <<closeFired, listener, deadline, evacuated, count, connected,
                   task, sent, eof, nread, mq, out, done, logs, quota>>

\* mqcp.enqueue(req) resolves: slots are reserved and router.route is called.
Enqueue(c) ==
    /\ task[c] = "running"
    /\ \E b \in InStage(c, "enqueue") :
          /\ mq' = [mq EXCEPT ![c] = ReserveSlots(@, b.lo, b.hi)]
          /\ batches' = [batches EXCEPT ![c] =
                 (@ \ { b }) \cup { [b EXCEPT !.stage = "route"] }]
    /\ UNCHANGED <<closeFired, listener, deadline, evacuated, count, connected,
                   task, sent, eof, nread, out, done, logs, quota>>

\* The end of a client task through the `then` closure's error arm:
\* warden2.decrement(), the metric untouched.
EndWithError(c, line) ==
    /\ task' = [task EXCEPT ![c] = "failed"]
    /\ count' = count - 1
    /\ logs' = [logs EXCEPT ![c] = @ \cup line]
    /\ batches' = [batches EXCEPT ![c] = {}]

\* Faulty variant: the enqueue error reaches the `then` closure as it is and
\* is logged as an error read from the client.
EnqueueFailLogged(c) ==
    /\ task[c] = "running"
    /\ InStage(c, "enqueue") # {}
    /\ EndWithError(c, { "read" })
    /\ UNCHANGED <<closeFired, listener, deadline, evacuated, connected, sent,
                   eof, nread, mq, out, done, quota>>

\* mqcp.enqueue(req) fails: ProtocolError::Empty ends the fold.
EnqueueFail(c) ==
    /\ task[c] = "running"
    /\ InStage(c, "enqueue") # {}
    /\ EndWithError(c, {})
    /\ UNCHANGED <<closeFired, listener, deadline, evacuated, connected, sent,
                   eof, nread, mq, out, done, quota>>

\* router.route(qmsgs) in progress: one request of the batch is answered, by
\* its backend's reply ("ok") or, its backend having failed, by the synthetic
\* error reply ("err"); the reply goes into the request's reserved slot.
Fulfil(c, i, kind) ==
    /\ task[c] = "running"
    /\ \E b \in InStage(c, "route") : i \in b.lo..b.hi
    /\ SlotPending(mq[c], i)
    /\ mq' = [mq EXCEPT ![c] = FillSlot(@, i, kind)]
    /\ UNCHANGED <<closeFired, listener, deadline, evacuated, count, connected,
                   task, sent, eof, nread, batches, out, done, logs, quota>>

\* The router's future resolves Ok when every request of the batch has its reply.
RouteResolved(c, b) == \A i \in b.lo..b.hi : ~SlotPending(mq[c], i)

\* router.route resolved Ok: the fold's step is over, the latency is recorded
\* and the stream may be polled again.
RouteDone(c) ==
    /\ task[c] = "running"
    /\ \E b \in InStage(c, "route") :
          /\ RouteResolved(c, b)
          /\ batches' = [batches EXCEPT ![c] = @ \ { b }]
          /\ done' = [done EXCEPT ![c] = [lo |-> b.lo, hi |-> b.hi]]
    /\ UNCHANGED <<closeFired, listener, deadline, evacuated, count, connected,
                   task, sent, eof, nread, mq, out, logs, quota>>

\* Faulty variant: a routing error is swallowed and the fold goes on as if the
\* batch were served.
RouteFailContinue(c) ==
    /\ task[c] = "running"
    /\ \E b \in InStage(c, "route") :
          /\ batches' = [batches EXCEPT ![c] = @ \ { b }]
          /\ done' = [done EXCEPT ![c] = [lo |-> b.lo, hi |-> b.hi]]
    /\ logs' = [logs EXCEPT ![c] = @ \cup { "routing" }]
    /\ UNCHANGED <<closeFired, listener, deadline, evacuated, count, connected,
                   task, sent, eof, nread, mq, out, quota>>

\* router.route resolves Err: "error during routing" is logged, the error
\* becomes ProtocolError::Empty and the fold, and with it the task, ends.
RouteFail(c) ==
    /\ task[c] = "running"
    /\ InStage(c, "route") # {}
    /\ EndWithError(c, { "routing" })
    /\ UNCHANGED <<closeFired, listener, deadline, evacuated, connected, sent,
                   eof, nread, mq, out, done, quota>>

\* Faulty variant: the end of the stream goes the way of an error; the metric
\* is left alone.
ReadEofNoMetric(c) ==
    /\ task[c] = "running"
    /\ FoldIdle(c)
    /\ eof[c]
    /\ nread[c] = sent[c]
    /\ task' = [task EXCEPT ![c] = "done"]
    /\ count' = count - 1
    /\ UNCHANGED <<closeFired, listener, deadline, evacuated, connected, sent, eof,
                   nread, batches, mq, out, done, logs, quota>>

\* The read stream ends (clean EOF) after every batch was served: the Ok arm,
\* ClientsConnected - 1 and warden2.decrement().
ReadEof(c) ==
    /\ task[c] = "running"
    /\ FoldIdle(c)
    /\ eof[c]
    /\ nread[c] = sent[c]
    /\ task' = [task EXCEPT ![c] = "done"]
    /\ connected' = connected - 1
    /\ count' = count - 1
    /\ UNCHANGED <<closeFired, listener, deadline, evacuated, sent, eof, nread,
                   batches, mq, out, done, logs, quota>>

\* Faulty variant: a read error ends the task without telling the warden.
ReadErrorNoDecrement(c) ==
    /\ task[c] = "running"
    /\ FoldIdle(c)
    /\ task' = [task EXCEPT ![c] = "failed"]
    /\ logs' = [logs EXCEPT ![c] = @ \cup { "read" }]
    /\ UNCHANGED <<closeFired, listener, deadline, evacuated, count, connected,
                   sent, eof, nread, batches, mq, out, done, quota>>

\* Faulty variant: the client's error is handed on to the accept loop, which
\* ends with it.
ReadErrorStopsAccept(c) ==
    /\ task[c] = "running"
    /\ FoldIdle(c)
    /\ EndWithError(c, { "read" })
    /\ listener' = "failed"
    /\ UNCHANGED <<closeFired, deadline, evacuated, connected, sent,
                   eof, nread, mq, out, done, quota>>

\* The read stream yields a protocol or I/O error: it is logged and the task
\* ends through the error arm.
ReadError(c) ==
    /\ task[c] = "running"
    /\ FoldIdle(c)
    /\ EndWithError(c, { "read" })
    /\ UNCHANGED <<closeFired, listener, deadline, evacuated, connected, sent,
                   eof, nread, mq, out, done, quota>>

\* The spawned MessageQueue task writes the contiguous ready prefix of its
\* slots to the client's socket.
MQFlush(c) ==
    /\ ReadyPrefixLen(mq[c]) > 0
    /\ LET n == ReadyPrefixLen(mq[c])
       IN  /\ out' = [out EXCEPT ![c] =
                  @ \o [k \in 1..n |-> [req |-> mq[c][k].req, kind |-> mq[c][k].state]]]
           /\ mq' = [mq EXCEPT ![c] = SubSeq(@, n + 1, Len(@))]
    /\ UNCHANGED <<closeFired, listener, deadline, evacuated, count, connected,
                   task, sent, eof, nread, batches, done, logs, quota>>

\* The drain timer, armed by the close signal, runs out after DrainMs.
DeadlineElapse ==
    /\ closeFired
    /\ ~deadline
    /\ deadline' = TRUE
    /\ UNCHANGED <<closeFired, listener, evacuated, count, connected, task, sent,
                   eof, nread, batches, mq, out, done, logs, quota>>

\* Faulty variant: the evacuator waits for the count alone, without a deadline.
EvacuateFireNoDeadline ==
    /\ closeFired
    /\ ~evacuated
    /\ count = 0
    /\ evacuated' = TRUE
    /\ UNCHANGED <<closeFired, listener, deadline, count, connected, task, sent,
                   eof, nread, batches, mq, out, done, logs, quota>>

\* Evacuate resolves: after the close signal, once the warden's count is zero
\* or the drain timer has run out.
EvacuateFire ==
    /\ closeFired
    /\ ~evacuated
    /\ (count = 0 \/ deadline)
    /\ evacuated' = TRUE
    /\ UNCHANGED <<closeFired, listener, deadline, count, connected, task, sent,
                   eof, nread, batches, mq, out, done, logs, quota>>

\* client_proto.select2(close): the evacuator resolved first, the client task
\* is dropped where it stands; its `then` closure never runs.
ClientCancel(c) ==
    /\ evacuated
    /\ task[c] = "running"
    /\ task' = [task EXCEPT ![c] = "cancelled"]
    /\ batches' = [batches EXCEPT ![c] = {}]
    /\ UNCHANGED <<closeFired, listener, deadline, evacuated, count, connected,
                   sent, eof, nread, mq, out, done, logs, quota>>

ReplyKinds == { "ok", "err" }

\* --- listener construction: from_config and what it calls ---

Protocols == { "redis", "REDIS", "memcache" }

RouteTypes == { "absent", "fixed", "Fixed", "warmup", "shadow" }

PoolConfigs == { {}, { "default" }, { "default", "shadow" }, { "warm", "cold" } }

\* str::to_lowercase, on the strings the configurations carry.
to_lowercase(str) ==
    CASE str = "REDIS" -> "redis"
      [] str = "Fixed" -> "fixed"
      [] OTHER -> str

NotBuilt == [kind |-> "none"]

\* Ok(Box<Future>): the listener's future, ready to be spawned.
Built == [kind |-> "Ok"]

\* Err(CreationError::InvalidResource(why)).
InvalidResource(why) == [kind |-> "InvalidResource", why |-> why]

\* Faulty variant: the fixed router is built whatever pools are configured.
get_fixed_router_any_pools == Built

\* get_fixed_router: the pool named "default" is looked up; without it the
\* construction fails, with it build_router_chain returns the accept loop.
get_fixed_router ==
    IF "default" \in pools THEN Built
    ELSE InvalidResource("no default pool configured for fixed router")

\* routing_from_config: every configured pool is built (`?` hands a failure
\* on), then the route type, "fixed" when absent, selects the router.
routing_from_config ==
    IF pools # {} /\ ~poolsOk THEN [kind |-> "PoolError"]
    ELSE LET route == to_lowercase(IF route_type = "absent" THEN "fixed" ELSE route_type)
         IN  IF route = "fixed" THEN get_fixed_router
             ELSE InvalidResource("unknown route type")

\* from_config: get_listener(..).expect(..) panics when the socket cannot be
\* bound; then the protocol selects the handler.
from_config ==
    IF ~bindOk THEN [kind |-> "panic"]
    ELSE IF to_lowercase(protocol) = "redis" THEN routing_from_config
    ELSE InvalidResource("unknown cache protocol")

\* The listener is constructed from its configuration; on Ok its future is
\* spawned and the accept loop starts.
FromConfig ==
    /\ result = NotBuilt
    /\ result' = from_config
    /\ listener' = IF from_config = Built THEN "accepting" ELSE listener
    /\ UNCHANGED <<protocol, route_type, pools, bindOk, poolsOk>>
    /\ UNCHANGED <<closeFired, deadline, evacuated, count, connected, task, sent,
                   eof, nread, batches, mq, out, done, logs, quota>>

\* The configuration of a listener that runs: the fixed router over a default pool.
ConfIdle ==
    /\ protocol = "redis"
    /\ route_type = "fixed"
    /\ pools = { "default" }
    /\ bindOk = TRUE
    /\ poolsOk = TRUE
    /\ result = Built

\* --- the signal thread of main ---

\* chan_signal::notify(&[Signal::USR1, Signal::INT]).
Signals == { "USR1", "INT" }

\* Bound of the signal model: how many signals are delivered in a run.
MaxSignals == 3

\* A signal is delivered to the process and queued for the signal thread.
Deliver(signal) ==
    /\ Len(sigQueue) + Len(sigSeen) < MaxSignals
    /\ sigQueue' = Append(sigQueue, signal)
    /\ UNCHANGED <<sigSeen, sigThread, closeSends>>

\* Faulty variant: the loop goes on after INT.
HandleSignalNoBreak ==
    /\ sigThread = "recv"
    /\ sigQueue # <<>>
    /\ sigQueue' = Tail(sigQueue)
    /\ sigSeen' = Append(sigSeen, Head(sigQueue))
    /\ IF Head(sigQueue) = "INT"
       THEN closeFired' = TRUE /\ closeSends' = closeSends + 1
       ELSE UNCHANGED <<closeFired, closeSends>>
    /\ UNCHANGED sigThread

\* One turn of the signal thread's loop: signals.recv(), the signal is logged;
\* USR1 does nothing, INT sends the close signal and leaves the loop.
HandleSignal ==
    /\ sigThread = "recv"
    /\ sigQueue # <<>>
    /\ sigQueue' = Tail(sigQueue)
    /\ sigSeen' = Append(sigSeen, Head(sigQueue))
    /\ IF Head(sigQueue) = "INT"
       THEN closeFired' = TRUE /\ closeSends' = closeSends + 1 /\ sigThread' = "exited"
       ELSE UNCHANGED <<closeFired, closeSends, sigThread>>

\* No signal has been delivered; the signal thread waits in its loop.
SigIdle ==
    /\ sigQueue = <<>>
    /\ sigSeen = <<>>
    /\ sigThread = "recv"
    /\ closeSends = 0

\* --- the Shadow router: the duplicate of each batch sent to the shadow pool ---

\* What the shadow pool does with a duplicate: it replies, or it fails; a
\* duplicate it never answers stays "none".
ShadowKinds == { "reply", "error" }

\* No duplicate has been answered.
ShadowIdle == shadow = [c \in Clients |-> [i \in 1..MaxReqs |-> "none"]]

\* Faulty variant: the shadow pool's answer goes into the client's slot when
\* the default pool has not filled it yet.
ShadowAnswerSurfaces(c, i, kind) ==
    /\ i \in Slotted(c)
    /\ shadow[c][i] = "none"
    /\ shadow' = [shadow EXCEPT ![c][i] = kind]
    /\ mq' = [mq EXCEPT ![c] = IF SlotPending(@, i) THEN FillSlot(@, i, kind) ELSE @]
    /\ UNCHANGED <<closeFired, listener, deadline, evacuated, count, connected,
                   task, sent, eof, nread, batches, out, done, logs, quota>>

\* The shadow pool answers the duplicate of request i, which route sent it
\* beside the default pool's copy: a reply is discarded, an error is logged;
\* neither touches the client's queue or task.
ShadowAnswer(c, i, kind) ==
    /\ i \in Slotted(c)
    /\ shadow[c][i] = "none"
    /\ shadow' = [shadow EXCEPT ![c][i] = kind]
    /\ UNCHANGED <<closeFired, listener, deadline, evacuated, count, connected,
                   task, sent, eof, nread, batches, mq, out, done, logs, quota>>

\* --- a backend pool: cool-off of its backends ---

\* The backends of the pool, by their index in the pool's backend vector.
PoolBackends == { 0, 1 }

\* The descriptors the pool seeds its distributor with: one per backend,
\* carrying the backend's index.
PoolDescriptors == << [idx |-> 0], [idx |-> 1] >>

\* The consecutive failures that send a backend into cool-off.
FailThreshold == 2

\* Bound of the pool model: how many requests the pool is given in a run.
MaxPoolReqs == 4

\* The states in which a backend is out of routing.
Masked == { "CoolingOff", "Probing" }

PoolStart ==
    /\ bstate = [b \in PoolBackends |-> "Healthy"]
    /\ fails = [b \in PoolBackends |-> 0]
    /\ plog = <<>>
    /\ recovered = [b \in PoolBackends |-> FALSE]

\* Faulty variant: the request goes to its backend whatever the backend's state.
PoolSubmitUnmasked(point) ==
    /\ Len(plog) < MaxPoolReqs
    /\ plog' = Append(plog, [backend |-> ModuloChoose(point).ret, out |-> "inflight"])
    /\ UNCHANGED <<bstate, fails, recovered>>

\* BackendPool::submit for one request: point -> distributor.choose -> slot
\* -> backend.  A backend out of routing is not given the request, which is
\* answered at once with an error reply.
PoolSubmit(point) ==
    /\ Len(plog) < MaxPoolReqs
    /\ LET slot == ModuloChoose(point).ret
       IN  plog' = Append(plog,
               [backend |-> slot,
                out |-> IF bstate[slot] \in Masked THEN "failfast" ELSE "inflight"])
    /\ UNCHANGED <<bstate, fails, recovered>>

\* The backend answers a request it was given; a success ends a run of failures.
BackendReply(k) ==
    /\ k \in 1..Len(plog)
    /\ plog[k].out = "inflight"
    /\ plog' = [plog EXCEPT ![k].out = "ok"]
    /\ LET b == plog[k].backend
       IN  IF bstate[b] \in Masked
           THEN UNCHANGED <<bstate, fails>>
           ELSE /\ bstate' = [bstate EXCEPT ![b] = "Healthy"]
                /\ fails' = [fails EXCEPT ![b] = 0]
    /\ UNCHANGED recovered

\* A request given to the backend fails (I/O error, timeout): it is answered
\* with the synthetic error reply, and the failure counts towards cool-off.
BackendFail(k) ==
    /\ k \in 1..Len(plog)
    /\ plog[k].out = "inflight"
    /\ plog' = [plog EXCEPT ![k].out = "unavailable"]
    /\ LET b == plog[k].backend
       IN  IF bstate[b] \in Masked
           THEN UNCHANGED <<bstate, fails>>
           ELSE /\ fails' = [fails EXCEPT ![b] = @ + 1]
                /\ bstate' = [bstate EXCEPT ![b] =
                       IF fails[b] + 1 >= FailThreshold THEN "CoolingOff" ELSE "Degraded"]
    /\ UNCHANGED recovered

\* The cool-off deadline of a backend passes: the backend is probed.
CooloffExpire(b) ==
    /\ bstate[b] = "CoolingOff"
    /\ bstate' = [bstate EXCEPT ![b] = "Probing"]
    /\ UNCHANGED <<fails, plog, recovered>>

\* The probe succeeds: the backend is back in routing.
ProbeOk(b) ==
    /\ bstate[b] = "Probing"
    /\ bstate' = [bstate EXCEPT ![b] = "Healthy"]
    /\ fails' = [fails EXCEPT ![b] = 0]
    /\ recovered' = [recovered EXCEPT ![b] = TRUE]
    /\ UNCHANGED plog

\* The probe fails: another cool-off.
ProbeFail(b) ==
    /\ bstate[b] = "Probing"
    /\ bstate' = [bstate EXCEPT ![b] = "CoolingOff"]
    /\ UNCHANGED <<fails, plog, recovered>>

\* The distributor is at rest while the listener runs.
DistIdle ==
    /\ usizeBits = 64
    /\ distKind = "modulo"
    /\ backends = <<>>
    /\ backend_count = 0
    /\ lastSeed = <<>>
    /\ distRes = NoCall
    /\ anchor = NoCall
    /\ interleaved = FALSE

Init == ListenerInit /\ DistIdle /\ ConfIdle /\ SigIdle /\ PoolStart /\ ShadowIdle

Next ==
    \/ (CloseSignal /\ UNCHANGED notListener)
    \/ (ListenerShutdown /\ UNCHANGED notListener)
    \/ (AcceptError /\ UNCHANGED notListener)
    \/ (DeadlineElapse /\ UNCHANGED notListener)
    \/ (EvacuateFire /\ UNCHANGED notListener)
    \/ \E c \in Clients : (ClientConnect(c) /\ UNCHANGED notListener)
    \/ \E c \in Clients : (Accept(c) /\ UNCHANGED notListener)
    \/ \E c \in Clients : (ClientSend(c) /\ UNCHANGED notListener)
    \/ \E c \in Clients : (ClientClose(c) /\ UNCHANGED notListener)
    \/ \E c \in Clients : (ReadBatch(c) /\ UNCHANGED notListener)
    \/ \E c \in Clients : (Enqueue(c) /\ UNCHANGED notListener)
    \/ \E c \in Clients : (EnqueueFail(c) /\ UNCHANGED notListener)
    \/ \E c \in Clients, i \in 1..MaxReqs, kind \in ReplyKinds : (Fulfil(c, i, kind) /\ UNCHANGED notListener)
    \/ \E c \in Clients : (RouteDone(c) /\ UNCHANGED notListener)
    \/ \E c \in Clients : (RouteFail(c) /\ UNCHANGED notListener)
    \/ \E c \in Clients : (ReadEof(c) /\ UNCHANGED notListener)
    \/ \E c \in Clients : (ReadError(c) /\ UNCHANGED notListener)
    \/ \E c \in Clients : (MQFlush(c) /\ UNCHANGED notListener)
    \/ \E c \in Clients : (ClientCancel(c) /\ UNCHANGED notListener)

Spec == Init /\ [][Next]_vars

\* The executor polls a task that can make progress, the timer fires, and the
\* shutdown path is taken once it is open.
Fairness ==
    /\ WF_vars(ListenerShutdown /\ UNCHANGED notListener)
    /\ WF_vars(DeadlineElapse /\ UNCHANGED notListener)
    /\ WF_vars(EvacuateFire /\ UNCHANGED notListener)
    /\ \A c \in Clients : WF_vars(ClientCancel(c) /\ UNCHANGED notListener)
    /\ \A c \in Clients : WF_vars(MQFlush(c) /\ UNCHANGED notListener)

FairInit == ListenerStart /\ quota \in ShutdownWorkloads /\ DistIdle /\ ConfIdle /\ SigIdle /\ PoolStart /\ ShadowIdle

FairSpec == FairInit /\ [][Next]_vars /\ Fairness

DistInit == DistInitD /\ ListenerIdle /\ ConfIdle /\ SigIdle /\ PoolStart /\ ShadowIdle

DistNext ==
    \/ \E list \in SeedLists : (update(list) /\ UNCHANGED notDistributor)
    \/ \E p \in Points : (choose(p) /\ UNCHANGED notDistributor)

SpecDist == DistInit /\ [][DistNext]_vars

\* --- construction of a listener from any configuration, then its run ---

\* The workload of the construction runs: one request from one client.
ConfWorkload == [c \in Clients |-> IF c = "c1" THEN 1 ELSE 0]

ConfInit ==
    /\ listener = "unbuilt"
    /\ TasksStart
    /\ quota = ConfWorkload
    /\ protocol \in Protocols
    /\ route_type \in RouteTypes
    /\ pools \in PoolConfigs
    /\ bindOk \in BOOLEAN
    /\ poolsOk \in BOOLEAN
    /\ result = NotBuilt
    /\ DistIdle
    /\ SigIdle
    /\ PoolStart
    /\ ShadowIdle

ConfNext ==
    \/ (FromConfig /\ UNCHANGED <<dvars, svars, pvars, hvars>>)
    \/ Next

SpecConf == ConfInit /\ [][ConfNext]_vars

\* --- a pool of two backends behind a modulo distributor ---

\* configure_distributor("modulo"), seeded with the pool's descriptors.
PoolDistributor ==
    /\ usizeBits \in { 32, 64 }
    /\ distKind = "modulo"
    /\ backends = PoolDescriptors
    /\ backend_count = Len(PoolDescriptors)
    /\ lastSeed = PoolDescriptors
    /\ distRes = NoCall
    /\ anchor = NoCall
    /\ interleaved = FALSE

PoolInit == PoolStart /\ PoolDistributor /\ ListenerIdle /\ ConfIdle /\ SigIdle /\ ShadowIdle

PoolNext ==
    \/ \E point \in Points : (PoolSubmit(point) /\ UNCHANGED notPool)
    \/ \E k \in 1..MaxPoolReqs : (BackendReply(k) /\ UNCHANGED notPool)
    \/ \E k \in 1..MaxPoolReqs : (BackendFail(k) /\ UNCHANGED notPool)
    \/ \E b \in PoolBackends : (CooloffExpire(b) /\ UNCHANGED notPool)
    \/ \E b \in PoolBackends : (ProbeOk(b) /\ UNCHANGED notPool)
    \/ \E b \in PoolBackends : (ProbeFail(b) /\ UNCHANGED notPool)

SpecPool == PoolInit /\ [][PoolNext]_vars

\* --- a listener built with the Shadow router over pools default and shadow ---

\* The workload of the shadow runs: one client pipelines two requests.
ShadowWorkload == [c \in Clients |-> IF c = "c1" THEN 2 ELSE 0]

\* The configuration of the test harness's second listener, built.
ShadowConf ==
    /\ protocol = "redis"
    /\ route_type = "shadow"
    /\ pools = { "default", "shadow" }
    /\ bindOk = TRUE
    /\ poolsOk = TRUE
    /\ result = Built

ShadowInit ==
    /\ ListenerStart
    /\ quota = ShadowWorkload
    /\ ShadowConf
    /\ ShadowIdle
    /\ DistIdle
    /\ SigIdle
    /\ PoolStart

\* The clients that connect in the shadow runs.
ShadowClients == { "c1" }

\* The listener's steps, for the clients that connect, and the shadow pool's.
ShadowNext ==
    \/ (CloseSignal /\ UNCHANGED notListener)
    \/ (ListenerShutdown /\ UNCHANGED notListener)
    \/ (AcceptError /\ UNCHANGED notListener)
    \/ (DeadlineElapse /\ UNCHANGED notListener)
    \/ (EvacuateFire /\ UNCHANGED notListener)
    \/ \E c \in ShadowClients : (ClientConnect(c) /\ UNCHANGED notListener)
    \/ \E c \in ShadowClients : (Accept(c) /\ UNCHANGED notListener)
    \/ \E c \in ShadowClients : (ClientSend(c) /\ UNCHANGED notListener)
    \/ \E c \in ShadowClients : (ClientClose(c) /\ UNCHANGED notListener)
    \/ \E c \in ShadowClients : (ReadBatch(c) /\ UNCHANGED notListener)
    \/ \E c \in ShadowClients : (Enqueue(c) /\ UNCHANGED notListener)
    \/ \E c \in ShadowClients : (EnqueueFail(c) /\ UNCHANGED notListener)
    \/ \E c \in ShadowClients, i \in 1..MaxReqs, kind \in ReplyKinds :
           (Fulfil(c, i, kind) /\ UNCHANGED notListener)
    \/ \E c \in ShadowClients : (RouteDone(c) /\ UNCHANGED notListener)
    \/ \E c \in ShadowClients : (RouteFail(c) /\ UNCHANGED notListener)
    \/ \E c \in ShadowClients : (ReadEof(c) /\ UNCHANGED notListener)
    \/ \E c \in ShadowClients : (ReadError(c) /\ UNCHANGED notListener)
    \/ \E c \in ShadowClients : (MQFlush(c) /\ UNCHANGED notListener)
    \/ \E c \in ShadowClients : (ClientCancel(c) /\ UNCHANGED notListener)
    \/ \E c \in ShadowClients, i \in 1..MaxReqs, kind \in ShadowKinds :
           (ShadowAnswer(c, i, kind) /\ UNCHANGED <<dvars, cvars, svars, pvars>>)

\* The client's MessageQueue task and the fold are polled when they can make
\* progress; nothing makes the shadow pool answer.
ShadowFairness ==
    /\ \A c \in ShadowClients : WF_vars(MQFlush(c) /\ UNCHANGED notListener)
    /\ \A c \in ShadowClients : WF_vars(RouteDone(c) /\ UNCHANGED notListener)

SpecShadow == ShadowInit /\ [][ShadowNext]_vars /\ ShadowFairness

\* --- the signal thread beside a listener whose clients are silent ---

SigInit == ListenerIdle /\ DistIdle /\ ConfIdle /\ SigIdle /\ PoolStart /\ ShadowIdle

SigNext ==
    \/ \E signal \in Signals : (Deliver(signal) /\ UNCHANGED <<lvars, dvars, cvars, pvars, hvars>>)
    \/ (HandleSignal
           /\ UNCHANGED <<listener, deadline, evacuated, count, connected, task, sent,
                          eof, nread, batches, mq, out, done, logs, quota>>
           /\ UNCHANGED <<dvars, cvars, pvars, hvars>>)
    \/ (ListenerShutdown /\ UNCHANGED notListener)
    \/ (AcceptError /\ UNCHANGED notListener)
    \/ (DeadlineElapse /\ UNCHANGED notListener)
    \/ (EvacuateFire /\ UNCHANGED notListener)
    \/ \E c \in Clients : (ClientConnect(c) /\ UNCHANGED notListener)
    \/ \E c \in Clients : (Accept(c) /\ UNCHANGED notListener)
    \/ \E c \in Clients : (ClientClose(c) /\ UNCHANGED notListener)
    \/ \E c \in Clients : (ReadEof(c) /\ UNCHANGED notListener)
    \/ \E c \in Clients : (ReadError(c) /\ UNCHANGED notListener)
    \/ \E c \in Clients : (ClientCancel(c) /\ UNCHANGED notListener)

\* The signal thread runs when a signal waits for it; the listener and the
\* client tasks are polled and the drain timer fires as under Fairness.
SigFairness ==
    /\ WF_vars(HandleSignal
                 /\ UNCHANGED <<listener, deadline, evacuated, count, connected, task,
                                sent, eof, nread, batches, mq, out, done, logs, quota>>
                 /\ UNCHANGED <<dvars, cvars, pvars, hvars>>)
    /\ WF_vars(ListenerShutdown /\ UNCHANGED notListener)
    /\ WF_vars(DeadlineElapse /\ UNCHANGED notListener)
    /\ WF_vars(EvacuateFire /\ UNCHANGED notListener)
    /\ \A c \in Clients : WF_vars(ClientCancel(c) /\ UNCHANGED notListener)

SpecSig == SigInit /\ [][SigNext]_vars /\ SigFairness

\* ------------------------------------------------------------------------
\* Properties of the listener (checked under Spec, C4 under FairSpec)
\* ------------------------------------------------------------------------

Ended == { "done", "failed", "cancelled" }

\* C1: for every client, the replies written to its socket are the replies to
\* its requests in exactly the order the requests were read, over any number
\* of batches and whatever the order in which the router answers.
C1_OrderPreserved ==
    \A c \in Clients : \A k \in 1..Len(out[c]) : out[c][k].req = k

\* C1 witness: a first batch has been answered on the socket and, in the next
\* batch, a later request is answered while an earlier one is still pending.
C1_Witness ==
    \E c \in Clients :
        /\ Len(out[c]) >= 1
        /\ \E j, k \in 1..Len(mq[c]) :
              j < k /\ mq[c][j].state = "pending" /\ mq[c][k].state # "pending"

\* The replies that exist for request i of client c: written, or fulfilled
\* and waiting in the queue.
Written(c, i) == { k \in 1..Len(out[c]) : out[c][k].req = i }
Queued(c, i) == { k \in 1..Len(mq[c]) : mq[c][k].req = i /\ mq[c][k].state # "pending" }

NoAccept ==
    /\ count' <= count
    /\ \A c \in Clients : task[c] \in { "none", "pending" } => task'[c] \in { "none", "pending" }

\* C3 as stated: from the moment the close signal has fired no client is
\* accepted, no client task is spawned and the warden is not incremented.
C3_NoAcceptOnceCloseFired == [][closeFired => NoAccept]_vars

\* C3 as amended: from the moment the listener's future has resolved on the
\* close signal no client is accepted, no client task is spawned and the
\* warden is not incremented.
C3_NoAcceptOnceListenerClosed == [][listener = "closed" => NoAccept]_vars

\* C3 witness: the close signal fired, the listener has shut down, and a
\* connection is still waiting in the backlog.
C3_Witness ==
    /\ closeFired
    /\ listener = "closed"
    /\ \E c \in Clients : task[c] = "pending"

\* C4: every client task running when the close signal has fired ends: it
\* completes, fails, or is cancelled once the drain deadline has passed.
C4_TasksEndAfterClose ==
    \A c \in Clients : (closeFired /\ task[c] = "running") ~> (task[c] \in Ended)

\* C4 witness: the drain timer ran out with the warden's count above zero and
\* a client task was cancelled.
C4_Witness ==
    /\ deadline
    /\ evacuated
    /\ count > 0
    /\ \E c \in Clients : task[c] = "cancelled"

C10_OneBatchOutstanding ==
    \A c \in Clients :
        /\ Cardinality(batches[c]) <= 1
        /\ \A b \in batches[c] :
              /\ b.hi - b.lo + 1 <= BatchCap
              /\ nread[c] = b.hi

\* C10 witness: a full batch is in the router while further requests of the
\* client wait unread.
C10_Witness ==
    \E c \in Clients : \E b \in batches[c] :
        /\ b.stage = "route"
        /\ b.hi - b.lo + 1 = BatchCap
        /\ sent[c] > nread[c]

\* C11: every batch handed to the MessageQueue and the router holds between 1
\* and BatchCap requests, starts right after the batch served before it, and is
\* formed from the requests available when the stream is polled: all of them
\* up to the cap, without waiting for more.
C11_Batching ==
    /\ [](\A c \in Clients : \A b \in batches[c] :
             /\ b.hi - b.lo + 1 >= 1
             /\ b.hi - b.lo + 1 <= BatchCap
             /\ b.lo = done[c].hi + 1)
    /\ [][\A c \in Clients : nread'[c] # nread[c] =>
             /\ nread'[c] = nread[c] + Min(sent[c] - nread[c], BatchCap)
             /\ batches'[c] = { [lo |-> nread[c] + 1, hi |-> nread'[c], stage |-> "enqueue"] }]_vars

\* C11 witness: after a first batch was served, a batch smaller than the cap
\* is in its fold step while a request that arrived after it waits unread.
C11_Witness ==
    \E c \in Clients :
        /\ done[c].hi >= 1
        /\ sent[c] > nread[c]
        /\ \E b \in batches[c] : b.hi - b.lo + 1 < BatchCap

\* C15: on a clean client close (EOF read after all of the client's batches
\* were served) the task ends normally: in that step ClientsConnected and the
\* warden's count each go down by one and nothing is logged; the task stays
\* ended, with no error line, so neither is decremented for it again.
C15_CleanClose ==
    /\ [][\A c \in Clients : (task[c] = "running" /\ task'[c] = "done") =>
             /\ eof[c] /\ nread[c] = sent[c] /\ batches[c] = {}
             /\ connected' = connected - 1
             /\ count' = count - 1
             /\ logs' = logs]_vars
    /\ [][\A c \in Clients : task[c] = "done" => task'[c] = "done"]_vars
    /\ [](\A c \in Clients : task[c] = "done" => logs[c] = {})

\* C15 witness: a client whose pipelined requests were all answered has
\* closed and its task has ended normally, while another client's task runs
\* on: one connection and one task are still counted.
C15_Witness ==
    /\ task["c1"] = "done"
    /\ sent["c1"] >= 2
    /\ Len(out["c1"]) = sent["c1"]
    /\ task["c2"] = "running"
    /\ connected = 1
    /\ count = 1

\* C19: while router.route runs for a batch, every request of the batch has
\* its output slot (reserved in the queue, or already written from it); the
\* slots stand in the queue in the order the requests were read, one per
\* request; and a batch whose enqueue has not resolved has no slot yet.
C19_SlotsBeforeRoute ==
    \A c \in Clients :
        /\ \A b \in InStage(c, "route") : (b.lo..b.hi) \subseteq Slotted(c)
        /\ \A b \in InStage(c, "enqueue") : (b.lo..b.hi) \cap Slotted(c) = {}
        /\ \A k \in 1..Len(mq[c]) : mq[c][k].req = Len(out[c]) + k

\* C19 witness: a second batch of a client is being routed with all its
\* slots pending, behind slots of the first batch that are not yet written.
C19_Witness ==
    \E c \in Clients : \E b \in InStage(c, "route") :
        /\ done[c].hi >= 1
        /\ \A i \in b.lo..b.hi : SlotPending(mq[c], i)
        /\ Len(mq[c]) > b.hi - b.lo + 1

\* C20: the ClientsConnected metric is the number of client tasks that are
\* running: one up per accept, one down per task that ends, on every path.
C20_ConnectedIsRunningTasks ==
    connected = Cardinality({ c \in Clients : task[c] = "running" })

\* The slots of client c that wait for their reply.
PendingSlots(q) == { q[k].req : k \in { j \in 1..Len(q) : q[j].state = "pending" } }

\* C21: when the enqueue or the routing of a batch fails, the task ends in
\* that step: the warden's count goes down by one, no read error is logged
\* (a routing failure logs its own line), and nothing more is read; and a
\* failed task stays failed: no later batch is read or routed for it, no
\* further line is logged and no slot of it is fulfilled.
C21_FailureStopsTask ==
    /\ [][\A c \in Clients : (task[c] = "running" /\ task'[c] = "failed" /\ batches[c] # {}) =>
             /\ count' = count - 1
             /\ connected' = connected
             /\ logs'[c] \subseteq logs[c] \cup { "routing" }
             /\ nread'[c] = nread[c]
             /\ batches'[c] = {}]_vars
    /\ [][\A c \in Clients : task[c] = "failed" =>
             /\ task'[c] = "failed"
             /\ nread'[c] = nread[c]
             /\ batches'[c] = {}
             /\ done'[c] = done[c]
             /\ logs'[c] = logs[c]
             /\ PendingSlots(mq'[c]) = PendingSlots(mq[c])]_vars
    /\ [](\A c \in Clients : "routing" \in logs[c] => (task[c] = "failed" /\ "read" \notin logs[c]))

\* C21 witness: the routing of a client's second batch failed; the task has
\* ended with the routing line alone in its log, the warden no longer counts
\* it, and a request the client sent after that batch stays unread.
C21_Witness ==
    \E c \in Clients :
        /\ task[c] = "failed"
        /\ logs[c] = { "routing" }
        /\ done[c].hi >= 1
        /\ nread[c] > done[c].hi
        /\ sent[c] > nread[c]
        /\ count = Cardinality({ d \in Clients : task[d] \in { "running", "cancelled" } })

\* C22: while the close signal has not fired, the step in which one client's
\* task ends (clean close, read error, enqueue or routing failure) leaves
\* every other client's task, queue, replies and batches as they were and
\* leaves the accept loop as it was.
C22_ClientIsolation ==
    [][\A c \in Clients :
         (~closeFired /\ task[c] = "running" /\ task'[c] \in { "done", "failed" }) =>
             /\ listener' = listener
             /\ \A d \in Clients \ { c } :
                   /\ task'[d] = task[d]
                   /\ mq'[d] = mq[d]
                   /\ out'[d] = out[d]
                   /\ batches'[d] = batches[d]
                   /\ nread'[d] = nread[d]
                   /\ logs'[d] = logs[d]]_vars

\* C22 witness: with no close signal and the accept loop running, one
\* client's task has failed and the other client, served in full, has its
\* reply on its socket and its task running.
C22_Witness ==
    /\ ~closeFired
    /\ listener = "accepting"
    /\ task["c1"] = "failed"
    /\ task["c2"] = "running"
    /\ sent["c2"] >= 1
    /\ Len(out["c2"]) = sent["c2"]

\* ------------------------------------------------------------------------
\* Properties of the distributor (checked under SpecDist)
\* ------------------------------------------------------------------------

ModuloCalled == distKind = "modulo" /\ distRes.kind # "none"

\* C6: after seed(descriptors) with n >= 1 descriptors, the modulo
\* distributor's choose(p) returns descriptors[p mod n].idx, the modulo being
\* taken over the full 64-bit value of p.
C6_ModuloOverFullPoint ==
    (ModuloCalled /\ Len(lastSeed) >= 1) =>
        /\ distRes.kind = "ok"
        /\ distRes.ret = lastSeed[U64Mod(distRes.point, Len(lastSeed)) + 1].idx

\* C7: with no backends (never seeded, or seeded with the empty list) the
\* modulo distributor's choose(p) returns the NoBackends error value; it
\* neither aborts nor returns an index.
C7_NoBackendsError ==
    (ModuloCalled /\ Len(lastSeed) = 0) => distRes.kind = "NoBackends"

\* C8: whatever idx values the seeded descriptors carry, a value returned by
\* choose is a zero-indexed position in the list given to the most recent
\* seed: 0 <= i < n.
C8_ReturnsListPosition ==
    distRes.kind = "ok" => (distRes.ret >= 0 /\ distRes.ret < Len(lastSeed))

\* The latest choose call repeats the point of the first call since the seed.
RepeatedPoint ==
    /\ anchor.kind = "ok"
    /\ distRes.kind = "ok"
    /\ distRes.point = anchor.point

\* C9 as stated: for a fixed seeded backend set and any configured
\* distributor, choosing for the same point again, with other choose calls in
\* between, yields the same backend index.
C9_StableForEveryDistributor == RepeatedPoint => distRes.ret = anchor.ret

\* C9 as amended: with the modulo distributor, choosing for the same point
\* again, with other choose calls in between, yields the same backend index.
C9_StableModulo ==
    (distKind = "modulo" /\ RepeatedPoint) => distRes.ret = anchor.ret

\* C9 witness: the modulo distributor, seeded with two or more descriptors of
\* different idx, is asked for the anchor's point again after a call for
\* another point.
C9_Witness ==
    /\ distKind = "modulo"
    /\ RepeatedPoint
    /\ interleaved
    /\ Len(lastSeed) >= 2
    /\ \E i, j \in 1..Len(lastSeed) : lastSeed[i].idx # lastSeed[j].idx

\* ------------------------------------------------------------------------
\* Properties of the listener's construction (checked under SpecConf)
\* ------------------------------------------------------------------------

\* The pools each routing policy requires.
RequiredPools(route) ==
    CASE route = "fixed" -> { "default" }
      [] route = "warmup" -> { "warm", "cold" }
      [] route = "shadow" -> { "default", "shadow" }
      [] OTHER -> {}

\* C12: a listener configured with routing type "fixed", "warmup" or "shadow"
\* and the pools that policy requires (the protocol known, the address free,
\* the pools buildable) is created successfully and starts accepting clients.
C12_PolicyListenersStart ==
    ( /\ result # NotBuilt
      /\ bindOk
      /\ poolsOk
      /\ protocol = "redis"
      /\ route_type \in { "fixed", "warmup", "shadow" }
      /\ RequiredPools(route_type) \subseteq pools )
    => (result = Built /\ listener # "unbuilt")

\* The configuration asks for the fixed router and has no pool named default.
FixedWithoutDefault ==
    /\ to_lowercase(route_type) \in { "fixed", "absent" }
    /\ "default" \notin pools

\* C13: for a fixed-routing listener whose pools contain no pool named
\* default, no accept loop is ever started and no client is ever accepted;
\* where the rest of the configuration is sound (protocol redis, the address
\* bound, the pools built) the construction fails with InvalidResource, for
\* the missing default pool.
C13_FixedNeedsDefaultPool ==
    FixedWithoutDefault =>
        /\ listener = "unbuilt"
        /\ count = 0
        /\ \A c \in Clients : task[c] = "none"
        /\ ( /\ result # NotBuilt
             /\ bindOk
             /\ (poolsOk \/ pools = {})
             /\ to_lowercase(protocol) = "redis" )
           => result = InvalidResource("no default pool configured for fixed router")

\* C13 witness: the construction of a fixed-routing listener with pools, none
\* of them named default, has failed with InvalidResource.
C13_Witness ==
    /\ FixedWithoutDefault
    /\ pools # {}
    /\ result = InvalidResource("no default pool configured for fixed router")

\* ------------------------------------------------------------------------
\* Properties of the signal thread (checked under SpecSig)
\* ------------------------------------------------------------------------

IntSeen == \E k \in 1..Len(sigSeen) : sigSeen[k] = "INT"

\* C14: whatever signals are delivered, a USR1 changes nothing and sends no
\* close signal; the close signal is sent exactly once, by the first INT the
\* thread receives; and once sent, the listener stops accepting and no client
\* task stays running.
C14_SignalHandling ==
    /\ [](/\ closeSends = (IF IntSeen THEN 1 ELSE 0)
          /\ closeFired <=> IntSeen)
    /\ [][(sigSeen' # sigSeen /\ sigSeen'[Len(sigSeen')] = "USR1")
            => UNCHANGED <<lvars, closeSends, sigThread>>]_vars
    /\ [][closeSends' # closeSends
            => (~IntSeen /\ sigSeen' = Append(sigSeen, "INT") /\ closeSends' = 1)]_vars
    /\ (closeSends = 1) ~> (listener # "accepting" /\ \A c \in Clients : task[c] # "running")

\* C14 witness: a USR1 and then an INT were received, a second INT was
\* delivered and stays unreceived, and the listener has shut down with a
\* client task cancelled.
C14_Witness ==
    /\ closeSends = 1
    /\ sigSeen = << "USR1", "INT" >>
    /\ sigQueue = << "INT" >>
    /\ listener = "closed"
    /\ \E c \in Clients : task[c] = "cancelled"

\* C16: a choose call leaves the descriptor list and the backend count as
\* they were, and after any sequence of seed and choose calls the stored list
\* is exactly the list passed to the most recent seed and the stored count is
\* its length.
C16_ChooseFrameSeedReplaces ==
    /\ [][distRes' # NoCall => UNCHANGED <<backends, backend_count, lastSeed>>]_vars
    /\ [](/\ backends = lastSeed
          /\ backend_count = Len(backends))

\* C16 witness: the distributor was seeded with two or more descriptors and
\* choose calls, for different points, have been answered from them.
C16_Witness ==
    /\ Len(lastSeed) >= 2
    /\ backend_count = Len(lastSeed)
    /\ distRes.kind = "ok"
    /\ interleaved

\* ------------------------------------------------------------------------
\* Properties of the backend pool (checked under SpecPool)
\* ------------------------------------------------------------------------

\* The request that arrives in this step, if one does.
Arrival == plog'[Len(plog')]

\* C17: while a backend is in cool-off (or being probed after it) no request
\* is given to it: a request whose point maps to it is answered with an error
\* reply in the step it arrives; a backend leaves the cool-off only through
\* the probe that follows its expiry; and a request whose backend is in
\* routing, also after such a recovery, is given to the backend and not
\* failed fast.
C17_CooloffMasking ==
    /\ [][Len(plog') > Len(plog) =>
            /\ Arrival.out \in { "failfast", "inflight" }
            /\ Arrival.out = "failfast" <=> bstate[Arrival.backend] \in Masked]_vars
    /\ [][\A k \in 1..Len(plog) :
            /\ plog'[k].backend = plog[k].backend
            /\ plog[k].out # "inflight" => plog'[k] = plog[k]]_vars
    /\ [][\A b \in PoolBackends :
            /\ bstate[b] = "CoolingOff" => bstate'[b] \in { "CoolingOff", "Probing" }
            /\ bstate[b] = "Probing" => bstate'[b] \in { "Probing", "Healthy", "CoolingOff" }]_vars

\* C17 witness: a backend took failures up to the threshold, a request for
\* it was failed fast during the cool-off, the probe succeeded, and a later
\* request was given to it and answered by it.
C17_Witness ==
    \E b \in PoolBackends : \E i, j, k \in 1..Len(plog) :
        /\ i < j /\ j < k
        /\ recovered[b]
        /\ plog[i].backend = b /\ plog[i].out = "unavailable"
        /\ plog[j].backend = b /\ plog[j].out = "failfast"
        /\ plog[k].backend = b /\ plog[k].out = "ok"

\* ------------------------------------------------------------------------
\* Properties of the Shadow router (checked under SpecShadow)
\* ------------------------------------------------------------------------

\* Request i of client c is in the ready prefix of the client's queue.
ReadyToWrite(c, i) == \E k \in 1..ReadyPrefixLen(mq[c]) : mq[c][k].req = i

====
